---- MODULE Spec2Model ----
(***************************************************************************)
(* Model of watcher/watcher.go: the Target Matcher (FirstActiveTarget and  *)
(* its three strategies) and the Event Watcher (StartEventWatcher).        *)
(*                                                                         *)
(* Strings are sequences of one-character strings; "" is <<>>.             *)
(***************************************************************************)
EXTENDS Integers, Sequences, FiniteSets, TLC

\* ------------------------------------------------------------------ bounds
MaxWindows == 2      \* top-level windows in the enumeration
MaxProcs   == 2      \* running processes in the snapshot
MaxWatchers == 2     \* calls of StartEventWatcher
MaxEvents  == 2      \* OS window events that occur in a behaviour
MaxCallbacks == 2    \* callback slots the matcher's calls may take in a behaviour

\* ------------------------------------------------------------ input sets
\* Window titles the OS may hold (upper case, so that lowering matters).
Titles == { <<>>, <<"A">>, <<"A", "b">> }
\* Executable names as the process snapshot reports them.
ExeNames == { <<"A">>, <<"b">> }
\* Key sets of the targets map a caller may pass: none, one keyword, two
\* keywords, and a map that holds the empty string as a key.
TargetKeySets ==
    { {}, { <<"a">> }, { <<"b">> }, { <<"a">>, <<"b">> }, { <<>>, <<"a">> } }
\* Directory of every executable: it contains a keyword character, so the
\* full path and the file name differ in what they match.
ExeDir == <<"b", "\\">>
\* OS queries that may fail; at most one kind fails in an OS state.
FaultKinds == { "textLength", "text", "path", "processes", "enumWindows" }
Faults == { {} } \cup { {f} : f \in FaultKinds }
\* GetLastError values a call may leave behind (0 = ERROR_SUCCESS).
Errnos == { 0, 5 }

NUL == "NUL"

VARIABLES
    targets,    \* the caller's map keyword -> label
    wins,       \* top-level windows in enumeration order; hwnd = index
    fg,         \* GetForegroundWindow: hwnd, 0 if none
    fgPid,      \* owning process id of the foreground window, 0 if none
    procs,      \* process snapshot: executable names; pid = index
    faults,     \* the OS queries that fail in this OS state
    result,     \* what the latest FirstActiveTarget call returned
    alive,      \* the process has not exited
    wpc,        \* where each watcher goroutine stands
    hookForeground, \* each watcher's local hookForeground (0 = not set)
    hookCreate,     \* each watcher's local hookCreate (0 = not set)
    registered, \* the WinEvent hooks the OS holds
    queue,      \* per watcher: number of events posted to its thread, not yet delivered
    occurred,   \* number of OS window events so far
    fired,      \* per watcher: calls of winEventProc
    started,    \* per watcher: handler invocations begun
    finished,   \* per watcher: handler invocations returned
    handlerOn,  \* per watcher: the contexts its handler has run on
    msgRet,     \* per watcher: <<ret>> of GetMessageW inside a loop iteration, else <<>>
    callbacks,  \* callback slots allocated by syscall.NewCallback (never freed)
    cpc,        \* per concurrent invocation of FirstActiveTarget: where it stands
    callKeywords, \* per invocation: its local slice `keywords`
    callFound,  \* the variables `foundKeyword` of isWindowActive
    callHwnd,   \* per invocation: the window EnumWindows hands to its callback next
    callResult  \* per invocation: the (keyword, found) pair it returned

osVars == <<wins, fg, fgPid, procs, faults>>
callVars == <<cpc, callKeywords, callFound, callHwnd, callResult>>
matcherVars == <<targets, wins, fg, fgPid, procs, faults, result,
                 cpc, callKeywords, callFound, callHwnd, callResult>>
watcherVars == <<alive, wpc, hookForeground, hookCreate, registered, queue,
                 occurred, fired, started, finished, handlerOn, msgRet>>
vars == <<targets, wins, fg, fgPid, procs, faults, result,
          alive, wpc, hookForeground, hookCreate, registered, queue,
          occurred, fired, started, finished, handlerOn, msgRet, callbacks,
          cpc, callKeywords, callFound, callHwnd, callResult>>

\* --------------------------------------------------------------- helpers
Min(S) == CHOOSE x \in S : \A y \in S : x <= y

SeqsUpTo(S, n) == UNION { [1..k -> S] : k \in 0..n }

Perms(S) == { s \in [1..Cardinality(S) -> S] : \A k \in S : \E i \in DOMAIN s : s[i] = k }

Zeros(n) == [i \in 1..n |-> NUL]

\* strings.ToLower
Lower(c) == CASE c = "A" -> "a" [] c = "B" -> "b" [] OTHER -> c
ToLower(s) == [i \in 1..Len(s) |-> Lower(s[i])]

\* strings.Contains: substr occurs in s as a contiguous run ("" always does)
Contains(s, substr) ==
    \E i \in 0..(Len(s) - Len(substr)) : SubSeq(s, i + 1, i + Len(substr)) = substr

\* windows.UTF16ToString: the buffer up to its first NUL
UTF16ToString(buf) ==
    LET nuls == { i \in 1..Len(buf) : buf[i] = NUL }
    IN  IF nuls = {} THEN buf ELSE SubSeq(buf, 1, Min(nuls) - 1)

\* filepath.Base
IsPathSeparator(c) == c \in { "\\", "/" }
RECURSIVE StripTrailing(_)
StripTrailing(path) ==
    IF Len(path) > 0 /\ IsPathSeparator(path[Len(path)])
    THEN StripTrailing(SubSeq(path, 1, Len(path) - 1))
    ELSE path
Base(path) ==
    IF path = <<>> THEN <<".">>
    ELSE LET p    == StripTrailing(path)
             seps == { i \in 1..Len(p) : IsPathSeparator(p[i]) }
             last == IF seps = {} THEN p
                     ELSE SubSeq(p, CHOOSE i \in seps : \A j \in seps : j <= i, Len(p))
             elem == IF seps = {} THEN p ELSE Tail(last)
         IN  IF elem = <<>> THEN <<"\\">> ELSE elem

\* The error value of LazyProc.Call: a syscall.Errno built from GetLastError,
\* boxed in the error interface; it is never the nil interface.
Nil == <<"nil">>
Errno(e) == <<"errno", e>>

\* (keyword, found) pairs
Match(k) == [keyword |-> k, found |-> TRUE]
NoMatch == [keyword |-> <<>>, found |-> FALSE]

\* `for _, keyword := range keywords { if strings.Contains(s, keyword) {...` :
\* the positions of the slice whose keyword is contained in s
Hits(keywords, s) == { i \in 1..Len(keywords) : Contains(s, keywords[i]) }
FirstHit(keywords, s) == keywords[Min(Hits(keywords, s))]


\* ------------------------------------------------------- OS queries used
GetForegroundWindow == fg

GetWindowTextLengthW(hwnd) ==
    IF "textLength" \in faults THEN 0 ELSE Len(wins[hwnd].title)

\* Copies at most nMaxCount - 1 characters and a terminating NUL into buf.
GetWindowTextW(hwnd, nMaxCount) ==
    IF "text" \in faults
    THEN [ret |-> 0, buf |-> Zeros(nMaxCount)]
    ELSE LET t == wins[hwnd].title
             n == IF Len(t) < nMaxCount - 1 THEN Len(t) ELSE nMaxCount - 1
         IN  [ret |-> n, buf |-> SubSeq(t, 1, n) \o Zeros(nMaxCount - n)]

IsWindowVisible(hwnd) == IF wins[hwnd].visible THEN 1 ELSE 0

\* The pid written through the out-parameter and the error value of the call.
GetWindowThreadProcessId(hwnd, lastErr) == [pid |-> fgPid, err |-> Errno(lastErr)]

\* A handle (here the pid itself), 0 when the pid names no live process.
OpenProcess(pid) == IF pid \in 1..Len(procs) THEN pid ELSE 0

GetModuleFileNameExW(handle) ==
    IF "path" \in faults
    THEN [n |-> 0, buf |-> Zeros(1)]
    ELSE LET path == ExeDir \o procs[handle]
         IN  [n |-> Len(path), buf |-> path \o Zeros(1)]

\* ps.Processes()
Processes ==
    IF "processes" \in faults
    THEN [processes |-> <<>>, err |-> Errno(5)]
    ELSE [processes |-> procs, err |-> Nil]

\* ---------------------------------------------------------- getWindowText
getWindowText(hwnd) ==
    LET length == GetWindowTextLengthW(hwnd)
    IN  IF length = 0 THEN <<>>
        ELSE LET r == GetWindowTextW(hwnd, length + 1)
             IN  IF r.ret = 0 THEN <<>> ELSE UTF16ToString(r.buf)

\* ---------------------------------------------------- getForegroundTarget
\* The part of getForegroundTarget after the title loop: the process lookup.
foregroundProcess(keywords, hwnd, lastErr) ==
    LET r == GetWindowThreadProcessId(hwnd, lastErr)
    IN  IF r.err # Nil THEN NoMatch
        ELSE IF r.pid = 0 THEN NoMatch
        ELSE LET handle == OpenProcess(r.pid)
             IN  IF handle = 0 THEN NoMatch
                 ELSE LET m == GetModuleFileNameExW(handle)
                          lowerExeName == ToLower(Base(UTF16ToString(m.buf)))
                      IN  IF m.n > 0 /\ Hits(keywords, lowerExeName) # {}
                          THEN Match(FirstHit(keywords, lowerExeName))
                          ELSE NoMatch

getForegroundTarget(keywords, lastErr) ==
    LET hwnd == GetForegroundWindow
    IN  IF hwnd = 0 THEN NoMatch
        ELSE LET title == getWindowText(hwnd)
                 lowerTitle == ToLower(title)
             IN  IF title # <<>> /\ Hits(keywords, lowerTitle) # {}
                 THEN Match(FirstHit(keywords, lowerTitle))
                 ELSE foregroundProcess(keywords, hwnd, lastErr)

\* -------------------------------------------------------- isProcessActive
\* The processes of the list, in order, whose lowered name contains a keyword.
ProcHits(keywords, processes) ==
    { p \in 1..Len(processes) : Hits(keywords, ToLower(processes[p])) # {} }

isProcessActive(keywords) ==
    LET r == Processes
    IN  IF r.err # Nil THEN NoMatch
        ELSE IF ProcHits(keywords, r.processes) = {} THEN NoMatch
        ELSE Match(FirstHit(keywords, ToLower(r.processes[Min(ProcHits(keywords, r.processes))])))

\* --------------------------------------------------------- isWindowActive
\* Variant: the callback records the keyword but lets the enumeration go on.
enumCallback_noStop(keywords, hwnd, foundKeyword) ==
    IF IsWindowVisible(hwnd) = 0
    THEN [ret |-> 1, foundKeyword |-> foundKeyword, titled |-> FALSE]
    ELSE LET title == getWindowText(hwnd)
             lowerTitle == ToLower(title)
         IN  IF title # <<>> /\ Hits(keywords, lowerTitle) # {}
             THEN [ret |-> 1, foundKeyword |-> FirstHit(keywords, lowerTitle), titled |-> TRUE]
             ELSE [ret |-> 1, foundKeyword |-> foundKeyword, titled |-> TRUE]

\* Variant: the callback does not ask whether the window is visible.
enumCallback_noVisibleCheck(keywords, hwnd, foundKeyword) ==
    LET title == getWindowText(hwnd)
        lowerTitle == ToLower(title)
    IN  IF title # <<>> /\ Hits(keywords, lowerTitle) # {}
        THEN [ret |-> 0, foundKeyword |-> FirstHit(keywords, lowerTitle), titled |-> TRUE]
        ELSE [ret |-> 1, foundKeyword |-> foundKeyword, titled |-> TRUE]

\* The EnumWindows callback on one window: its return value (0 stops the
\* enumeration), the value it leaves in foundKeyword, and the queries it made.
enumCallback(keywords, hwnd, foundKeyword) ==
    IF IsWindowVisible(hwnd) = 0
    THEN [ret |-> 1, foundKeyword |-> foundKeyword, titled |-> FALSE]
    ELSE LET title == getWindowText(hwnd)
             lowerTitle == ToLower(title)
         IN  IF title # <<>> /\ Hits(keywords, lowerTitle) # {}
             THEN [ret |-> 0, foundKeyword |-> FirstHit(keywords, lowerTitle), titled |-> TRUE]
             ELSE [ret |-> 1, foundKeyword |-> foundKeyword, titled |-> TRUE]

\* EnumWindows from window hwnd on: calls the callback per window until it
\* returns 0.  st carries foundKeyword and the windows queried so far.
RECURSIVE EnumWindows(_, _, _)
EnumWindows(keywords, hwnd, st) ==
    IF hwnd > Len(wins) THEN st
    ELSE LET c  == enumCallback(keywords, hwnd, st.foundKeyword)
             s2 == [foundKeyword |-> c.foundKeyword,
                    stopped      |-> c.ret = 0,
                    visQueried   |-> Append(st.visQueried, hwnd),
                    titleQueried |-> IF c.titled THEN Append(st.titleQueried, hwnd)
                                     ELSE st.titleQueried]
         IN  IF c.ret = 0 THEN s2 ELSE EnumWindows(keywords, hwnd + 1, s2)

\* procEnumWindows.Call(cb, 0): the state the callbacks leave and the return
\* value, 0 when the call fails and when a callback stopped the enumeration.
EnumWindowsCall(keywords) ==
    LET st0 == [foundKeyword |-> <<>>, stopped |-> FALSE,
                visQueried |-> <<>>, titleQueried |-> <<>>]
        st  == IF "enumWindows" \in faults THEN st0 ELSE EnumWindows(keywords, 1, st0)
    IN  [st |-> st, ret |-> IF "enumWindows" \in faults \/ st.stopped THEN 0 ELSE 1]

\* Variant: a return of 0 from EnumWindows is taken to mean "a callback found
\* a keyword".
isWindowActive_retZeroMeansFound(keywords) ==
    LET e == EnumWindowsCall(keywords)
    IN  [res |-> IF e.ret = 0 THEN Match(e.st.foundKeyword) ELSE NoMatch,
         visQueried |-> e.st.visQueried, titleQueried |-> e.st.titleQueried]

\* Variant: the final test of foundKeyword is missing.
isWindowActive_noEmptyCheck(keywords) ==
    LET e == EnumWindowsCall(keywords)
    IN  [res |-> Match(e.st.foundKeyword),
         visQueried |-> e.st.visQueried, titleQueried |-> e.st.titleQueried]

isWindowActive(keywords) ==
    LET e == EnumWindowsCall(keywords)
    IN  [res |-> IF e.st.foundKeyword # <<>> THEN Match(e.st.foundKeyword) ELSE NoMatch,
         visQueried |-> e.st.visQueried, titleQueried |-> e.st.titleQueried]

\* ------------------------------------------------------ FirstActiveTarget
\* `for k := range targets`: the keys in an order the runtime chooses
MapRange(m) == Perms(DOMAIN m)

\* The value returned, with what the call did: the strategies invoked in
\* order, the foreground strategy's own result, the windows the enumeration
\* queried.
Ret(res, invoked, fore, vis, titled) ==
    [keyword |-> res.keyword, found |-> res.found, invoked |-> invoked,
     foreground |-> fore, visQueried |-> vis, titleQueried |-> titled]

\* Variant: the process list is consulted before the foreground window.
FirstActiveTarget_processFirst(keywords, lastErr) ==
    LET p == isProcessActive(keywords)
    IN  IF p.found THEN Ret(p, <<"process">>, NoMatch, <<>>, <<>>)
        ELSE LET f == getForegroundTarget(keywords, lastErr)
             IN  IF f.found THEN Ret(f, <<"process", "foreground">>, f, <<>>, <<>>)
                 ELSE LET w == isWindowActive(keywords)
                      IN  Ret(w.res, <<"process", "foreground", "window">>, f,
                              w.visQueried, w.titleQueried)

\* Variant: the visible windows are consulted before the process list.
FirstActiveTarget_windowBeforeProcess(keywords, lastErr) ==
    LET f == getForegroundTarget(keywords, lastErr)
    IN  IF f.found THEN Ret(f, <<"foreground">>, f, <<>>, <<>>)
        ELSE LET w == isWindowActive(keywords)
             IN  IF w.res.found
                 THEN Ret(w.res, <<"foreground", "window">>, f,
                          w.visQueried, w.titleQueried)
                 ELSE Ret(isProcessActive(keywords), <<"foreground", "window", "process">>,
                          f, w.visQueried, w.titleQueried)

FirstActiveTarget(keywords, lastErr) ==
    LET f == getForegroundTarget(keywords, lastErr)
    IN  IF f.found THEN Ret(f, <<"foreground">>, f, <<>>, <<>>)
        ELSE LET p == isProcessActive(keywords)
             IN  IF p.found THEN Ret(p, <<"foreground", "process">>, f, <<>>, <<>>)
                 ELSE LET w == isWindowActive(keywords)
                      IN  IF w.res.found
                          THEN Ret(w.res, <<"foreground", "process", "window">>, f,
                                   w.visQueried, w.titleQueried)
                          ELSE Ret(NoMatch, <<"foreground", "process", "window">>, f,
                                   w.visQueried, w.titleQueried)

\* ------------------------------------------------------------ the machine
\* No call made yet.
NoCall == Ret(NoMatch, <<>>, NoMatch, <<>>, <<>>)

\* Visible windows with any title, and a hidden window whose title matches.
WindowKinds ==
    [title : Titles, visible : {TRUE}] \cup [title : {<<"A", "b">>}, visible : {FALSE}]

\* The foreground window, when there is one, is the first window enumerated.
InitOS ==
    /\ wins \in SeqsUpTo(WindowKinds, MaxWindows)
    /\ fg \in { h \in {0, 1} : h <= Len(wins) }
    /\ fgPid \in IF fg = 0 THEN {0} ELSE 0..MaxProcs
    /\ procs \in SeqsUpTo(ExeNames, MaxProcs)
    /\ faults \in Faults

Watchers == 1..MaxWatchers

\* No watcher started.
InitWatchers ==
    /\ alive = TRUE
    /\ wpc = [w \in Watchers |-> "idle"]
    /\ hookForeground = [w \in Watchers |-> 0]
    /\ hookCreate = [w \in Watchers |-> 0]
    /\ registered = {}
    /\ queue = [w \in Watchers |-> 0]
    /\ occurred = 0
    /\ fired = [w \in Watchers |-> 0]
    /\ started = [w \in Watchers |-> 0]
    /\ finished = [w \in Watchers |-> 0]
    /\ handlerOn = [w \in Watchers |-> {}]
    /\ msgRet = [w \in Watchers |-> <<>>]

\* The contexts that may be inside FirstActiveTarget at once: the watcher's
\* handler and another caller.
Callers == { "handler", "caller" }

\* No invocation in progress.
InitCalls ==
    /\ cpc = [c \in Callers |-> "idle"]
    /\ callKeywords = [c \in Callers |-> <<>>]
    /\ callFound = [c \in Callers |-> <<>>]
    /\ callHwnd = [c \in Callers |-> 0]
    /\ callResult = [c \in Callers |-> NoMatch]

Init ==
    /\ InitOS
    /\ \E K \in TargetKeySets : targets = [k \in K |-> "label"]
    /\ result = NoCall
    /\ callbacks = 0
    /\ InitCalls
    /\ InitWatchers

\* A caller invokes FirstActiveTarget(targets) and gets its return value.
\* isWindowActive, when invoked, creates its EnumWindows callback with
\* syscall.NewCallback: one more slot of the runtime's callback table.
NewCallbacks(r) == Cardinality({ i \in DOMAIN r.invoked : r.invoked[i] = "window" })
CallFirstActiveTarget ==
    /\ \E keywords \in MapRange(targets), lastErr \in Errnos :
          /\ result' = FirstActiveTarget(keywords, lastErr)
          /\ callbacks' = callbacks + NewCallbacks(result')
          /\ callbacks' <= MaxCallbacks
    /\ UNCHANGED <<targets, osVars, watcherVars, callVars>>

Next == CallFirstActiveTarget

Spec == Init /\ [][Next]_vars

\* ======================================================================
\* Concurrent invocations of FirstActiveTarget, step by step
\* ======================================================================
\* Each invocation runs the three strategies in turn on its own context; the
\* window enumeration is one step per callback call.  The OS state is fixed.

\* Variant: foundKeyword is a package-level variable that every invocation's
\* callback writes and every isWindowActive reads.
foundKeywordOf_shared(c) == "handler"

\* `var foundKeyword string` (line 186): a local of the isWindowActive call,
\* captured by that call's closure; invocation c's is the one named c.
foundKeywordOf(c) == c

Return(c, res) ==
    /\ cpc' = [cpc EXCEPT ![c] = "done"]
    /\ callResult' = [callResult EXCEPT ![c] = [keyword |-> res.keyword, found |-> res.found]]

\* FirstActiveTarget(targets) is entered: the keys of the caller's map are
\* appended to `keywords` in the order the map range gives them.
BeginCall(c) ==
    /\ alive /\ cpc[c] = "idle"
    /\ \E K \in TargetKeySets : \E ks \in Perms(K) :
          callKeywords' = [callKeywords EXCEPT ![c] = ks]
    /\ cpc' = [cpc EXCEPT ![c] = "foreground"]
    /\ UNCHANGED <<targets, osVars, result, watcherVars, callbacks, callFound,
                   callHwnd, callResult>>

\* `if target, ok := getForegroundTarget(keywords); ok { return target, true }`
CallForeground(c) ==
    /\ alive /\ cpc[c] = "foreground"
    /\ \E lastErr \in Errnos :
          LET f == getForegroundTarget(callKeywords[c], lastErr)
          IN  IF f.found THEN Return(c, f)
              ELSE cpc' = [cpc EXCEPT ![c] = "process"] /\ UNCHANGED callResult
    /\ UNCHANGED <<targets, osVars, result, watcherVars, callbacks, callKeywords,
                   callFound, callHwnd>>

\* `if target, ok := isProcessActive(keywords); ok { return target, true }`
CallProcess(c) ==
    /\ alive /\ cpc[c] = "process"
    /\ LET p == isProcessActive(callKeywords[c])
       IN  IF p.found THEN Return(c, p)
           ELSE cpc' = [cpc EXCEPT ![c] = "window"] /\ UNCHANGED callResult
    /\ UNCHANGED <<targets, osVars, result, watcherVars, callbacks, callKeywords,
                   callFound, callHwnd>>

\* isWindowActive is entered: foundKeyword is declared (""), the callback is
\* created and EnumWindows is called; it goes to the first window if any.
CallWindow(c) ==
    /\ alive /\ cpc[c] = "window"
    /\ callFound' = [callFound EXCEPT ![foundKeywordOf(c)] = <<>>]
    /\ callbacks' = callbacks + 1
    /\ IF "enumWindows" \in faults \/ Len(wins) = 0
       THEN cpc' = [cpc EXCEPT ![c] = "enumDone"] /\ UNCHANGED callHwnd
       ELSE /\ cpc' = [cpc EXCEPT ![c] = "enum"]
            /\ callHwnd' = [callHwnd EXCEPT ![c] = 1]
    /\ UNCHANGED <<targets, osVars, result, watcherVars, callKeywords, callResult>>

\* EnumWindows calls the callback for the next window; a return of 0, or the
\* last window, ends the enumeration.
EnumCallback(c) ==
    /\ alive /\ cpc[c] = "enum"
    /\ LET r == enumCallback(callKeywords[c], callHwnd[c], callFound[foundKeywordOf(c)])
       IN  /\ callFound' = [callFound EXCEPT ![foundKeywordOf(c)] = r.foundKeyword]
           /\ IF r.ret = 0 \/ callHwnd[c] = Len(wins)
              THEN /\ cpc' = [cpc EXCEPT ![c] = "enumDone"]
                   /\ callHwnd' = [callHwnd EXCEPT ![c] = 0]
              ELSE /\ callHwnd' = [callHwnd EXCEPT ![c] = callHwnd[c] + 1]
                   /\ UNCHANGED cpc
    /\ UNCHANGED <<targets, osVars, result, watcherVars, callbacks, callKeywords,
                   callResult>>

\* EnumWindows returned: `if foundKeyword != "" { return foundKeyword, true }`,
\* else ("", false), which FirstActiveTarget hands on.
EnumReturns(c) ==
    /\ alive /\ cpc[c] = "enumDone"
    /\ LET foundKeyword == callFound[foundKeywordOf(c)]
       IN  Return(c, IF foundKeyword # <<>> THEN Match(foundKeyword) ELSE NoMatch)
    /\ UNCHANGED <<targets, osVars, result, watcherVars, callbacks, callKeywords,
                   callFound, callHwnd>>

\* OS states in which the calls reach every strategy; no query fails.
InitConcurrent ==
    /\ wins \in SeqsUpTo(WindowKinds, MaxWindows)
    /\ fg \in { h \in {0, 1} : h <= Len(wins) }
    /\ fgPid = 0
    /\ procs \in { <<>>, << <<"b">> >> }
    /\ faults = {}
    /\ targets = [k \in {} |-> "label"]
    /\ result = NoCall
    /\ callbacks = 0
    /\ InitCalls
    /\ InitWatchers

NextConcurrent ==
    \/ \E c \in Callers : BeginCall(c)
    \/ \E c \in Callers : CallForeground(c)
    \/ \E c \in Callers : CallProcess(c)
    \/ \E c \in Callers : CallWindow(c)
    \/ \E c \in Callers : EnumCallback(c)
    \/ \E c \in Callers : EnumReturns(c)

ConcurrentSpec == InitConcurrent /\ [][NextConcurrent]_vars

\* ======================================================================
\* The Event Watcher: StartEventWatcher
\* ======================================================================
\* The three window events and the hook whose range holds each.
WinEvents == { "foreground", "create", "destroy" }
\* Handles SetWinEventHook gives out (non-zero, one per hook).
ForegroundHandle(w) == 2 * w - 1
CreateHandle(w) == 2 * w
Hooked(w, e) ==
    IF e = "foreground" THEN ForegroundHandle(w) \in registered
    ELSE CreateHandle(w) \in registered

At(w, pc) == alive /\ wpc[w] = pc
Goto(w, pc) == wpc' = [wpc EXCEPT ![w] = pc]
\* log.Fatalf: the process exits, and the OS drops its hooks with it.
Fatal == alive' = FALSE /\ registered' = {} /\ UNCHANGED wpc

\* StartEventWatcher(handler): `go func() {...}()`, and the caller goes on.
StartEventWatcher(w) ==
    /\ At(w, "idle")
    /\ \A v \in 1..(w - 1) : wpc[v] # "idle"   \* watchers are numbered as started
    /\ Goto(w, "setForeground")
    /\ UNCHANGED <<matcherVars, callbacks, msgRet, alive, hookForeground, hookCreate, registered, queue,
                   occurred, fired, started, finished, handlerOn>>

\* winEventProc := syscall.NewCallback(...), which takes a callback slot, then
\* hookForeground := SetWinEventHook(eventSystemForeground, ...); 0 is fatal.
SetForegroundHook(w) ==
    /\ At(w, "setForeground")
    /\ callbacks' = callbacks + 1
    /\ \E h \in {0, ForegroundHandle(w)} :
          /\ hookForeground' = [hookForeground EXCEPT ![w] = h]
          /\ IF h = 0 THEN Fatal
             ELSE /\ registered' = registered \cup {h}
                  /\ Goto(w, "setCreate")
                  /\ UNCHANGED alive
    /\ UNCHANGED <<matcherVars, msgRet, hookCreate, queue, occurred, fired, started,
                   finished, handlerOn>>

\* Variant: a return of 0 for the second hook is not tested, and the goroutine
\* goes on to the message loop.
SetCreateHook_ignoreFailure(w) ==
    /\ At(w, "setCreate")
    /\ \E h \in {0, CreateHandle(w)} :
          /\ hookCreate' = [hookCreate EXCEPT ![w] = h]
          /\ registered' = IF h = 0 THEN registered ELSE registered \cup {h}
          /\ Goto(w, "getMessage")
          /\ UNCHANGED alive
    /\ UNCHANGED <<matcherVars, callbacks, msgRet, hookForeground, queue, occurred, fired, started,
                   finished, handlerOn>>

\* hookCreate := SetWinEventHook(eventObjectCreate, eventObjectDestroy, ...)
SetCreateHook(w) ==
    /\ At(w, "setCreate")
    /\ \E h \in {0, CreateHandle(w)} :
          /\ hookCreate' = [hookCreate EXCEPT ![w] = h]
          /\ IF h = 0 THEN Fatal
             ELSE /\ registered' = registered \cup {h}
                  /\ Goto(w, "getMessage")
                  /\ UNCHANGED alive
    /\ UNCHANGED <<matcherVars, callbacks, msgRet, hookForeground, queue, occurred, fired, started,
                   finished, handlerOn>>

\* The OS: a window event occurs and is posted to the thread of every hook
\* whose range holds it (WINEVENT_OUTOFCONTEXT).  winEventProc ignores its
\* arguments, so the queue keeps the number of events only.
WinEvent(e) ==
    /\ alive /\ occurred < MaxEvents
    /\ \E w \in Watchers : Hooked(w, e)
    /\ occurred' = occurred + 1
    /\ queue' = [w \in Watchers |-> IF Hooked(w, e) THEN queue[w] + 1 ELSE queue[w]]
    /\ UNCHANGED <<matcherVars, callbacks, msgRet, alive, wpc, hookForeground, hookCreate, registered,
                   fired, started, finished, handlerOn>>

\* Variant: winEventProc starts the handler on another context (`go handler()`)
\* and returns at once.
DeliverWinEvent_async(w) ==
    /\ At(w, "getMessage") /\ queue[w] > 0
    /\ queue' = [queue EXCEPT ![w] = queue[w] - 1]
    /\ fired' = [fired EXCEPT ![w] = fired[w] + 1]
    /\ started' = [started EXCEPT ![w] = started[w] + 1]
    /\ handlerOn' = [handlerOn EXCEPT ![w] = handlerOn[w] \cup {0}]
    /\ UNCHANGED <<matcherVars, callbacks, msgRet, alive, wpc, hookForeground, hookCreate, registered,
                   occurred, finished>>

\* Inside GetMessageW the OS calls winEventProc for a posted event; it calls
\* handler() on the watcher's goroutine.
DeliverWinEvent(w) ==
    /\ At(w, "getMessage") /\ queue[w] > 0
    /\ queue' = [queue EXCEPT ![w] = queue[w] - 1]
    /\ fired' = [fired EXCEPT ![w] = fired[w] + 1]
    /\ started' = [started EXCEPT ![w] = started[w] + 1]
    /\ handlerOn' = [handlerOn EXCEPT ![w] = handlerOn[w] \cup {w}]
    /\ Goto(w, "handler")
    /\ UNCHANGED <<matcherVars, callbacks, msgRet, alive, hookForeground, hookCreate, registered,
                   occurred, finished>>

\* handler() returns, winEventProc returns 0, GetMessageW goes on waiting.
HandlerReturns(w) ==
    /\ At(w, "handler")
    /\ finished' = [finished EXCEPT ![w] = finished[w] + 1]
    /\ Goto(w, "getMessage")
    /\ UNCHANGED <<matcherVars, callbacks, msgRet, alive, hookForeground, hookCreate, registered, queue,
                   occurred, fired, started, handlerOn>>

\* GetMessageW returns: > 0 for a message, 0 for WM_QUIT, -1 for an error.
GetMessageRets == { 1, 0, -1 }
GetMessageReturns(w) ==
    /\ At(w, "getMessage")
    /\ \E ret \in GetMessageRets :
          IF ret = -1
          THEN Goto(w, "unhookCreate") /\ UNCHANGED msgRet
          ELSE Goto(w, "translate") /\ msgRet' = [msgRet EXCEPT ![w] = <<ret>>]
    /\ UNCHANGED <<matcherVars, callbacks, alive, hookForeground, hookCreate, registered, queue,
                   occurred, fired, started, finished, handlerOn>>

\* `if err != nil && err.(syscall.Errno) != 0 { log.Fatalf(...) }`
FatalErr(lastErr) == Errno(lastErr) # Nil /\ lastErr # 0

TranslateMessage(w) ==
    /\ At(w, "translate")
    /\ \E lastErr \in Errnos :
          IF FatalErr(lastErr) THEN Fatal
          ELSE Goto(w, "dispatch") /\ UNCHANGED <<alive, registered>>
    /\ UNCHANGED <<matcherVars, callbacks, msgRet, hookForeground, hookCreate, queue, occurred, fired,
                   started, finished, handlerOn>>

\* The iteration ends here, and its `ret` with it.
DispatchMessage(w) ==
    /\ At(w, "dispatch")
    /\ \E lastErr \in Errnos :
          IF FatalErr(lastErr) THEN Fatal /\ UNCHANGED msgRet
          ELSE /\ Goto(w, "getMessage")
               /\ msgRet' = [msgRet EXCEPT ![w] = <<>>]
               /\ UNCHANGED <<alive, registered>>
    /\ UNCHANGED <<matcherVars, callbacks, hookForeground, hookCreate, queue, occurred, fired,
                   started, finished, handlerOn>>

\* Variant: a return of 0 from UnhookWinEvent is treated like a failed
\* registration (log.Fatalf instead of log.Printf).
UnhookCreate_fatalOnFailure(w) ==
    /\ At(w, "unhookCreate")
    /\ \E ret \in {0, 1} :
          IF ret = 0 THEN Fatal
          ELSE /\ registered' = registered \ {hookCreate[w]}
               /\ Goto(w, "unhookForeground")
               /\ UNCHANGED alive
    /\ UNCHANGED <<matcherVars, callbacks, msgRet, hookForeground, hookCreate, queue,
                   occurred, fired, started, finished, handlerOn>>

\* The deferred functions run last-in first-out: hookCreate, then
\* hookForeground.  A return of 0 from UnhookWinEvent is logged only.
UnhookCreate(w) ==
    /\ At(w, "unhookCreate")
    /\ \E ret \in {0, 1} :
          registered' = IF ret = 0 THEN registered ELSE registered \ {hookCreate[w]}
    /\ Goto(w, "unhookForeground")
    /\ UNCHANGED <<matcherVars, callbacks, msgRet, alive, hookForeground, hookCreate, queue, occurred,
                   fired, started, finished, handlerOn>>

UnhookForeground(w) ==
    /\ At(w, "unhookForeground")
    /\ \E ret \in {0, 1} :
          registered' = IF ret = 0 THEN registered ELSE registered \ {hookForeground[w]}
    /\ Goto(w, "returned")
    /\ UNCHANGED <<matcherVars, callbacks, msgRet, alive, hookForeground, hookCreate, queue, occurred,
                   fired, started, finished, handlerOn>>

\* The watcher alone: the matcher's inputs are held at one OS state.
InitWatcherOnly ==
    /\ wins = <<>> /\ fg = 0 /\ fgPid = 0 /\ procs = <<>> /\ faults = {}
    /\ targets = [k \in {} |-> "label"]
    /\ result = NoCall
    /\ callbacks = 0
    /\ InitCalls
    /\ InitWatchers

NextWatcher ==
    \/ \E w \in Watchers : StartEventWatcher(w)
    \/ \E w \in Watchers : SetForegroundHook(w)
    \/ \E w \in Watchers : SetCreateHook(w)
    \/ \E e \in WinEvents : WinEvent(e)
    \/ \E w \in Watchers : DeliverWinEvent(w)
    \/ \E w \in Watchers : HandlerReturns(w)
    \/ \E w \in Watchers : GetMessageReturns(w)
    \/ \E w \in Watchers : TranslateMessage(w)
    \/ \E w \in Watchers : DispatchMessage(w)
    \/ \E w \in Watchers : UnhookCreate(w)
    \/ \E w \in Watchers : UnhookForeground(w)

WatcherSpec == InitWatcherOnly /\ [][NextWatcher]_vars

\* ======================================================================
\* Properties of the Target Matcher
\* ======================================================================
\* What the OS queries report in the current OS state.
Called == result.invoked # <<>>
Keys == DOMAIN targets
ReportedTitle(hwnd) ==
    IF faults \cap {"textLength", "text"} # {} THEN <<>> ELSE wins[hwnd].title
KeysIn(s) == { k \in Keys : Contains(ToLower(s), k) }
Snapshot == IF "processes" \in faults THEN <<>> ELSE procs
SnapshotKeys == UNION { KeysIn(Snapshot[p]) : p \in 1..Len(Snapshot) }
Enumerated == IF "enumWindows" \in faults THEN 0 ELSE Len(wins)
\* visible windows that have a title containing a keyword
MatchingWindows ==
    { h \in 1..Enumerated :
        wins[h].visible /\ ReportedTitle(h) # <<>> /\ KeysIn(ReportedTitle(h)) # {} }
\* the foreground window's process can be opened and its path read
FgExeKnown == fg # 0 /\ fgPid \in 1..Len(procs) /\ "path" \notin faults
FgExeName == Base(ExeDir \o procs[fgPid])
FgTitleKeys == IF fg = 0 \/ ReportedTitle(fg) = <<>> THEN {} ELSE KeysIn(ReportedTitle(fg))
FgExeKeys == IF FgExeKnown THEN KeysIn(FgExeName) ELSE {}
Pair(r) == <<r.keyword, r.found>>

\* C1: when the foreground window has a title that contains exactly one
\* keyword k, FirstActiveTarget returns (k, true) and the call invokes the
\* foreground strategy only (neither isProcessActive nor isWindowActive).
C1_ForegroundTitleOnly ==
    (Called /\ Cardinality(FgTitleKeys) = 1)
        => /\ result.found
           /\ FgTitleKeys = {result.keyword}
           /\ result.invoked = <<"foreground">>

C1_Witness ==
    /\ Called /\ Cardinality(FgTitleKeys) = 1 /\ Cardinality(Keys) = 2
    /\ SnapshotKeys \ FgTitleKeys # {}
    /\ result.invoked = <<"foreground">>

\* C2 (as claimed): when the foreground window matches k1 by its title or by
\* the file name of its process's executable, and a running process's name
\* contains another keyword k2 the foreground window does not match,
\* FirstActiveTarget returns (k1, true).
C2_ForegroundBeatsProcess ==
    \A k1, k2 \in Keys :
        (/\ Called /\ k1 # k2
         /\ k1 \in FgTitleKeys \cup FgExeKeys
         /\ k2 \notin FgTitleKeys \cup FgExeKeys
         /\ k2 \in SnapshotKeys)
            => Pair(result) = <<k1, TRUE>>

\* C3 (as claimed): when the foreground window's title contains no keyword,
\* its process id is non-zero, the process opens, the path is read and the
\* lowered file name contains exactly one keyword k, getForegroundTarget
\* returns (k, true).
C3_ForegroundExeName ==
    (Called /\ fg # 0 /\ FgTitleKeys = {} /\ FgExeKnown /\ Cardinality(FgExeKeys) = 1)
        => /\ result.foreground.found
           /\ FgExeKeys = {result.foreground.keyword}

\* C4: when the foreground strategy finds nothing and a process of the
\* snapshot has a name containing a keyword, FirstActiveTarget returns found
\* with a keyword contained in a process name, and the call invokes the process
\* list right after the foreground strategy and never the window enumeration.
C4_ProcessBeforeWindows ==
    (Called /\ ~result.foreground.found /\ SnapshotKeys # {})
        => /\ result.found
           /\ result.keyword \in SnapshotKeys
           /\ result.invoked = <<"foreground", "process">>
           /\ result.visQueried = <<>> /\ result.titleQueried = <<>>

C4_Witness ==
    /\ Called /\ ~result.foreground.found /\ SnapshotKeys # {}
    /\ MatchingWindows # {}
    /\ \E h \in MatchingWindows : result.keyword \notin KeysIn(ReportedTitle(h))
    /\ result.invoked = <<"foreground", "process">>

\* C5: when neither the foreground nor the process list matched, the window
\* enumeration never asks a hidden window for its title, and the first visible
\* window whose title contains a keyword is where it ends: windows 1..h have
\* their visibility queried and no later one, only the visible ones among them
\* have their title queried, and the keyword reported is one contained in the
\* title of window h (reported as found whenever it is not the empty string).
C5_FirstVisibleWindow ==
    (Called /\ Len(result.invoked) = 3)
        => /\ \A i \in 1..Len(result.titleQueried) : wins[result.titleQueried[i]].visible
           /\ MatchingWindows # {} =>
                LET h == Min(MatchingWindows)
                IN  /\ result.visQueried = [i \in 1..h |-> i]
                    /\ { result.titleQueried[i] : i \in 1..Len(result.titleQueried) }
                         = { w \in 1..h : wins[w].visible }
                    /\ result.keyword \in KeysIn(ReportedTitle(h))
                    /\ result.keyword # <<>> => result.found

C5_Witness ==
    /\ Called /\ Len(result.invoked) = 3 /\ result.found
    /\ Cardinality(MatchingWindows) = 2
    /\ Len(result.visQueried) = 1
    /\ \E h \in MatchingWindows : result.keyword \notin KeysIn(ReportedTitle(h))

\* C6: whenever FirstActiveTarget returns (k, true), k is a key of targets and
\* is contained in the lowered form of a string the OS reports: the foreground
\* window's title, its executable's file name, a process name of the snapshot
\* or the title of an enumerated visible window; with no foreground window, no
\* matching process and no matching visible window it returns found = false.
C6_NoFalsePositive ==
    Called =>
        /\ result.found =>
              /\ result.keyword \in Keys
              /\ \/ result.keyword \in FgTitleKeys
                 \/ result.keyword \in FgExeKeys
                 \/ result.keyword \in SnapshotKeys
                 \/ \E h \in MatchingWindows : result.keyword \in KeysIn(ReportedTitle(h))
        /\ (fg = 0 /\ SnapshotKeys = {} /\ MatchingWindows = {}) => ~result.found

C6_Witness ==
    /\ Called /\ result.found /\ Len(result.invoked) = 3
    /\ \E h \in 1..Len(wins) : ~wins[h].visible /\ h < Min(MatchingWindows)

\* C7: a failed OS query counts as "no match here" and the call goes on: the
\* call always returns a (keyword, found) pair; a failed title query, a missing
\* process id, a process that cannot be opened or a path that cannot be read
\* leaves the foreground strategy without a match from that step; a failed
\* process or window enumeration leaves that strategy without a match; and
\* the next strategy is invoked, so that a keyword the process snapshot or the
\* first matching visible window holds is still reported (a key that is the
\* empty string is reported by the window enumeration as "", found = false).
QueryFailed ==
    \/ faults # {}
    \/ fg # 0 /\ ~FgExeKnown
    \/ \E h \in 1..Len(wins) : wins[h].title = <<>>
C7_FailureFallsThrough ==
    (Called /\ QueryFailed)
        => /\ result.found \in BOOLEAN
           /\ result.invoked[1] = "foreground"
           /\ result.foreground.found => result.keyword \in FgTitleKeys \cup FgExeKeys
           /\ ~result.foreground.found =>
                /\ Len(result.invoked) >= 2 /\ result.invoked[2] = "process"
                /\ SnapshotKeys # {} => result.found /\ Len(result.invoked) = 2
                /\ SnapshotKeys = {} =>
                     /\ result.invoked = <<"foreground", "process", "window">>
                     /\ "enumWindows" \in faults => ~result.found
                     /\ MatchingWindows # {} =>
                          /\ result.keyword \in KeysIn(ReportedTitle(Min(MatchingWindows)))
                          /\ result.keyword # <<>> => result.found
                          /\ <<>> \notin Keys => result.found
                     /\ MatchingWindows = {} => ~result.found

C7_Witness ==
    /\ Called /\ "processes" \in faults /\ procs # <<>>
    /\ result.found /\ result.invoked = <<"foreground", "process", "window">>

\* C8: with an empty targets map FirstActiveTarget returns found = false in
\* every OS state.
C8_EmptyTargets ==
    (Called /\ Keys = {}) => ~result.found /\ result.keyword = <<>>

C8_Witness ==
    /\ Called /\ Keys = {} /\ fg # 0 /\ ReportedTitle(fg) # <<>>
    /\ Len(procs) = MaxProcs /\ Len(wins) = MaxWindows /\ faults = {}
    /\ ~result.found

\* C9 (as claimed): with the OS state and the targets map fixed, a call of
\* FirstActiveTarget returns the same (keyword, found) pair as the call before
\* (stated for maps whose keys are all non-empty).
C9_SameResultEveryCall ==
    [][(Called /\ <<>> \notin Keys) => Pair(result') = Pair(result)]_vars

\* ======================================================================
\* Properties of the Event Watcher
\* ======================================================================
\* C10: once a watcher has registered both hooks, every call of its
\* winEventProc is one invocation of handler, on that watcher's own goroutine;
\* the goroutine is inside the handler exactly while an invocation is
\* unfinished, so at most one invocation is in progress and the next event is
\* delivered only after it returned; and no event that occurred is delivered
\* to a watcher more than once.
C10_HandlerOncePerEvent ==
    \A w \in Watchers :
        /\ started[w] = fired[w]
        /\ finished[w] <= started[w] /\ started[w] <= finished[w] + 1
        /\ (started[w] = finished[w] + 1) <=> (wpc[w] = "handler")
        /\ handlerOn[w] \subseteq {w}
        /\ fired[w] + queue[w] <= occurred
        /\ fired[w] > 0 => hookForeground[w] # 0 /\ hookCreate[w] # 0

C10_Witness ==
    \E w \in Watchers :
        /\ finished[w] = 2 /\ handlerOn[w] = {w}
        /\ \E v \in Watchers \ {w} : wpc[v] = "handler"

\* C11: a hook registration that returns 0 ends the process at that step, with
\* the watcher still before its message loop and its handler never invoked;
\* nothing moves once the process has exited; and a watcher that is in its
\* message loop (waiting in GetMessage, in the handler, translating or
\* dispatching) has both hooks set, and both are registered with the OS while
\* the process lives.
InLoop == { "getMessage", "handler", "translate", "dispatch" }
C11_BothHooksOrExit ==
    /\ [](\A w \in Watchers :
            wpc[w] \in InLoop =>
                /\ hookForeground[w] # 0 /\ hookCreate[w] # 0
                /\ alive => {hookForeground[w], hookCreate[w]} \subseteq registered)
    /\ [][\A w \in Watchers :
            (\/ wpc[w] = "setForeground" /\ hookForeground'[w] = 0 /\ SetForegroundHook(w)
             \/ wpc[w] = "setCreate" /\ hookCreate'[w] = 0 /\ SetCreateHook(w))
                => /\ ~alive' /\ registered' = {}
                   /\ wpc'[w] \notin InLoop /\ started'[w] = 0]_vars
    /\ [][alive]_vars

\* The second registration failed after the first succeeded.
C11_Witness ==
    /\ ~alive /\ wpc[1] = "setCreate" /\ wpc[2] = "idle"
    /\ hookForeground[1] # 0 /\ hookCreate[1] = 0 /\ registered = {}

\* C12 (as claimed): after any sequence of StartEventWatcher calls at most one
\* watcher goroutine is past its start, the OS holds at most one pair of
\* hooks, and the handler invocations begun by all watchers together are no
\* more than the OS events that occurred.
RECURSIVE SumTo(_, _)
SumTo(f, n) == IF n = 0 THEN 0 ELSE f[n] + SumTo(f, n - 1)
C12_AtMostOneWatcher ==
    /\ Cardinality({ w \in Watchers : wpc[w] # "idle" }) <= 1
    /\ Cardinality(registered) <= 2
    /\ SumTo(started, MaxWatchers) <= occurred

\* C16 (as claimed): the loop iteration in which GetMessageW returned 0 (the
\* quit sentinel WM_QUIT) is the watcher's last: it does not go back to wait
\* in GetMessageW.
C16_QuitLeavesLoop ==
    [][\A w \in Watchers : msgRet[w] = <<0>> => wpc'[w] # "getMessage"]_vars

\* C17 (as claimed): the process exits for a failed hook registration only:
\* when the process has exited, some watcher stands at the registration of
\* one of its hooks, and none was ended by a step of its message loop.
C17_OnlyRegistrationIsFatal ==
    ~alive => \E w \in Watchers : wpc[w] \in { "setForeground", "setCreate" }

\* C18: a watcher leaves its message loop only towards the deferred unhooks;
\* from there it moves on only by attempting UnhookWinEvent for hookCreate and
\* then for hookForeground; each attempt, whether it returns 0 or not, leaves
\* the process alive and takes the watcher on to the next attempt or to its
\* return; and after the first attempt the second is always possible.
C18_UnhookFailureIsWarning ==
    /\ [][\A w \in Watchers :
            /\ (wpc[w] \in InLoop /\ wpc'[w] \notin InLoop) => wpc'[w] = "unhookCreate"
            /\ (wpc[w] = "unhookCreate" /\ wpc'[w] # "unhookCreate")
                   => UnhookCreate(w) /\ wpc'[w] = "unhookForeground"
            /\ (wpc[w] = "unhookForeground" /\ wpc'[w] # "unhookForeground")
                   => UnhookForeground(w) /\ wpc'[w] = "returned"
            /\ (wpc[w] = "unhookCreate" /\ UnhookCreate(w)) => alive'
            /\ (wpc[w] = "unhookForeground" /\ UnhookForeground(w)) => alive']_vars
    /\ [](\A w \in Watchers :
            (alive /\ wpc[w] = "unhookForeground") => ENABLED UnhookForeground(w))

\* The first unhook failed, the second was attempted and succeeded, and the
\* process lives.
C18_Witness ==
    /\ alive /\ wpc[1] = "returned"
    /\ hookCreate[1] \in registered /\ hookForeground[1] \notin registered

\* ======================================================================
\* Resources and concurrent use of the Target Matcher
\* ======================================================================
\* C15 (as claimed): after any number of completed FirstActiveTarget calls the
\* callback slots taken through syscall.NewCallback are as many as before the
\* first call (none, with no watcher started).
C15_NoResourceKept ==
    Called => callbacks = 0

\* C19 (as claimed): each strategy a call invokes reports found = true exactly
\* when some key of targets is contained in the lowered form of one of the
\* candidate strings it retrieved: the foreground window's title, the process
\* names of the snapshot, the titles of the visible windows whose title the
\* enumeration read (stated for candidates that are not the empty string).
WindowCandidates ==
    { ReportedTitle(result.titleQueried[i]) : i \in DOMAIN result.titleQueried } \ { <<>> }
C19_SameMatchingRule ==
    Called =>
        /\ result.foreground.found <=> FgTitleKeys # {}
        /\ Len(result.invoked) >= 2 =>
              ((Len(result.invoked) = 2 /\ result.found) <=> SnapshotKeys # {})
        /\ Len(result.invoked) = 3 =>
              (result.found <=> \E c \in WindowCandidates : KeysIn(c) # {})

\* C13: however the steps of concurrent invocations interleave, an invocation
\* that has returned holds the (keyword, found) pair FirstActiveTarget gives
\* for its own keywords when evaluated alone in the same OS state: what the
\* other invocation wrote (its keywords, its foundKeyword) has not reached it.
Alone(c) == { Pair(FirstActiveTarget(callKeywords[c], e)) : e \in Errnos }
C13_ConcurrentCallsIndependent ==
    \A c \in Callers : cpc[c] = "done" => Pair(callResult[c]) \in Alone(c)

\* Both invocations are inside the window enumeration at once, and their
\* callbacks have found different keywords.
C13_Witness ==
    /\ cpc["handler"] = "enumDone" /\ cpc["caller"] = "enumDone"
    /\ callFound["handler"] # <<>> /\ callFound["caller"] # <<>>
    /\ callFound["handler"] # callFound["caller"]

====
